---- MODULE Spec2Model ----
(***************************************************************************)
(* The tool-call orchestration engine of etnz/b3: expert.Expert (Start,    *)
(* Ask, Declare, Call) driven by b3app.Agent.Run, over an abstract model   *)
(* service (genai.Chat) and abstract leaf tools (expert.Tool).             *)
(*                                                                         *)
(* The program is single threaded.  It blocks in exactly three kinds of    *)
(* external call: a tool's Start / Chats.Create, Chat.Send, and a leaf     *)
(* tool's Call.  A state of the model is the program stopped in one of     *)
(* these calls (or between two REPL inputs); an action is the external     *)
(* call returning one of its possible results, followed by all the code    *)
(* the program runs until it blocks again.                                 *)
(***************************************************************************)
EXTENDS Naturals, Sequences, FiniteSets, TLC

VARIABLES
    Tools,      \* Expert.Tools of each expert: sequence of tool instances
    toolmap,    \* Expert.toolmap of each expert: name -> tool instance
    decls,      \* Expert.Config.Tools[0].FunctionDeclarations: names, in order
    chat,       \* Expert.chat: the session handle (id 0: nil) and the number
                \* of Sends it has received
    started,    \* Agent.started
    stack,      \* suspended activations, outermost first
    act,        \* the external call the program is blocked in
    ret,        \* what the last top-level Expert.Ask returned to Agent.Run
    inputs,     \* number of inputs Agent.Run has consumed
    ctx,        \* the context.Context given to Agent.Run: live or cancelled
    boot,       \* observer: the events of Start, in program order
    win,        \* observer: per expert, the events of its Ask since the last
                \* return of a Send on its session, in program order
    cnt,        \* observer: per expert, the Asks entered from outside Ask, the
                \* Sends, the call turns and the tool Calls since Agent.Run
                \* read its input (the root) or since Call was entered
    chain,      \* observer: the call turns received, on any session, since
                \* the last input was read
    argv,       \* the inputs given to Agent.Run that it has not consumed yet
    rd,         \* Agent.r: the lines not read yet, the unterminated rest, and
                \* the error that ends the reader
    hist,       \* observer: what Agent.Run has consumed, in order
    drive,      \* Google Drive: the files that exist and their parents
    job         \* the B4Delete or B4Merge call in progress: the ids still to
                \* delete and, as observers, the last id given to DeleteFile,
                \* what the Drive service answered and the error returned

vars == <<Tools, toolmap, decls, chat, started, stack, act, ret, inputs, ctx, boot, win, cnt, chain,
          argv, rd, hist, drive, job>>

-----------------------------------------------------------------------------
(* Bounds of the model *)

\* longest part list of a turn returned by the model service
MaxParts == 2
\* number of Sends, over all sessions, that the model service may answer
\* with a function call while one input is processed; a later Send is
\* answered without one (or fails)
MaxChain == 2
\* number of inputs Agent.Run reads, over all its invocations
MaxInputs == 2
\* number of inputs Agent.Run may be given as arguments
MaxArgs == 2
\* number of complete lines the reader may hold
MaxLines == 1
\* number of file ids given to one B4Delete or B4Merge call
MaxIds == 2

-----------------------------------------------------------------------------
(* Values *)

Nil == [nil |-> TRUE]

Root == "B3"
Sub == "Admin"
Experts == {Root, Sub}
LeafTools == {"t1", "t2", "t3"}

\* the name a tool declares: an Expert declares its Name, the leaf tools of
\* this configuration all declare the same one
LeafName == "ReadFile"

\* names the model service may put in a function call
Names == {LeafName, Sub, "Ghost"}
NoTool == "<none>"

\* values of type any, tagged with their dynamic type
Str(s) == [type |-> "string", v |-> s]
Num == [type |-> "float64", v |-> "7"]
NilValue == [type |-> "nil", v |-> ""]

\* map[string]any arguments; a key that is absent reads as the nil value
MkArgs(q) == [question |-> q]

\* payload map[string]any of a FunctionResponse
Absent == "<absent>"
OutputPayload(x) == [output |-> x, error |-> Absent]
ErrorPayload(x) == [output |-> Absent, error |-> x]
HasKey(payload, key) == IF key = "output" THEN payload.output # Absent
                        ELSE IF key = "error" THEN payload.error # Absent
                        ELSE FALSE

FunctionCall(name, id, args) == [Name |-> name, ID |-> id, Args |-> args]
FunctionResponse(id, name, payload) == [ID |-> id, Name |-> name, Response |-> payload]

TextPart(s) == [Text |-> s, FunctionCall |-> Nil, FunctionResponse |-> Nil]
CallPart(s, fc) == [Text |-> s, FunctionCall |-> fc, FunctionResponse |-> Nil]
ResponsePart(fr) == [Text |-> "", FunctionCall |-> Nil, FunctionResponse |-> fr]

Content(parts) == [Parts |-> parts]
EmptyContent == Content(<<>>)

NoErr == "nil"
SendErr == "send failed"
UnknownErr == "unknown function"
AskResult(content, err) == [content |-> content, err |-> err]
NoResult == [content |-> Nil, err |-> "<no result>"]

\* implementations of ConversationLogger: the Agent, which prints what it is
\* given, and one that does nothing
AgentLogger == "Agent"
QuietLogger == "quiet"

-----------------------------------------------------------------------------
(* What the environment can answer *)

\* function calls the model service may issue
ModelCalls ==
    { FunctionCall(LeafName, "id1", MkArgs(Str("a"))),
      FunctionCall(Sub, "id2", MkArgs(Str("q"))),
      FunctionCall(Sub, "id1", MkArgs(Num)),
      FunctionCall(Sub, "id1", MkArgs(NilValue)),
      FunctionCall(Sub, "id2", MkArgs(Str(""))),
      FunctionCall("Ghost", "id1", MkArgs(NilValue)) }

\* parts without a call: text, or neither text nor call (inline data)
TextParts == {TextPart("hello"), TextPart("")}

\* parts with a call, one of them with text on the same part
CallParts ==
    {CallPart("", fc) : fc \in ModelCalls}
    \cup {CallPart("hello", FunctionCall(LeafName, "id2", MkArgs(Str("b"))))}

\* parts that may follow the first call of a turn: a text, another call
TailParts ==
    {TextPart("bye"), CallPart("", FunctionCall(LeafName, "id3", MkArgs(Str("c"))))}

SeqsUpTo(S, n) == UNION {[1..k -> S] : k \in 0..n}

\* the part lists of a turn: call-free, or some call-free parts, a call and
\* whatever follows it
Turns ==
    SeqsUpTo(TextParts, MaxParts)
    \cup { t \in { pre \o <<c>> \o tail :
                     pre \in SeqsUpTo(TextParts, MaxParts - 1),
                     c \in CallParts,
                     tail \in SeqsUpTo(TailParts, MaxParts - 1) } :
           Len(t) <= MaxParts }

\* genai.GenerateContentResponse: no candidate, a nil content, or a content
Responses ==
    {[Candidates |-> <<>>], [Candidates |-> <<[Content |-> Nil]>>]}
    \cup {[Candidates |-> <<[Content |-> Content(ps)]>>] : ps \in Turns}

\* what a leaf tool's Call may return: the ID and Name are the tool's own
LeafResponses ==
    { FunctionResponse(h[1], h[2], p) :
        h \in {<<"", "">>, <<"zz", "Other">>},
        p \in {OutputPayload("data"), ErrorPayload("X")} }

\* the lists of tools the root expert may be built with
RootTools == {<<Sub, "t1", "t2">>, <<Sub, "t2", "t1">>, <<"t1", Sub>>}

\* inputs of the REPL
Questions == {"list my files"}

\* Google Drive as the file tools see it: the root, the B4 folder in the
\* root, a folder, a document, and the document B4Merge uploads
B4 == "B4"
Folders == {"root", B4, "dir"}
Nodes == Folders \cup {"f", "m"}
\* the parents a Drive may give to the folder and to the document
DriveParents ==
    { [n \in Nodes |-> IF n = "root" THEN {}
                       ELSE IF n = B4 THEN {"root"}
                       ELSE IF n = "m" THEN {B4}
                       ELSE IF n = "dir" THEN pd ELSE pf] :
        pd \in {{"root"}, {B4}}, pf \in (SUBSET Folders) \ {{}} }
\* the runs that do not use the file tools see no Drive
NoDrive == [files |-> {}, parents |-> [n \in Nodes |-> {}]]
\* what the Drive service may answer during one DeleteFile: the B4 folder is
\* found or not, Files.Get fails for the ids in bad, Files.Delete fails or not
DriveAnswers ==
    [found : BOOLEAN, bad : {{}, {"dir"}, {"f"}}, deletes : BOOLEAN]
FirstAnswer == [found |-> TRUE, bad |-> {}, deletes |-> TRUE]
\* no tool call in progress
NoJob == [tool |-> "none", pend |-> <<>>, id |-> "", env |-> FirstAnswer, err |-> NoErr]

\* an input of the REPL as the characters it is made of
Space == {" ", "\n"}
Hi == <<"h", "i">>
Bye == <<"b", "y", "e">>
\* the arguments Agent.Run may be given: padded or not, blank, "bye"
ArgValues == {<<" ">> \o Hi, <<" ">>, Bye \o <<" ">>}
\* the lines the reader may hold, each with its newline
LineValues == {Hi \o <<" ", "\n">>, <<"\n">>, <<" ">> \o Bye \o <<"\n">>}
\* what the reader may hold after its last newline
RestValues == {<<>>, Hi}
\* the error the reader ends with
EOF == "EOF"
ReadErr == "read error"
\* a reader: Agent.Run was given none to speak of in the runs that take
\* their inputs one at a time
Reader(lines, rest, err) == [lines |-> lines, rest |-> rest, err |-> err]
NoReader == Reader(<<>>, <<>>, EOF)
Readers ==
    {Reader(ls, r, e) : ls \in SeqsUpTo(LineValues, MaxLines), r \in RestValues,
                        e \in {EOF, ReadErr}}

-----------------------------------------------------------------------------
(* The program state as one value, so that straight-line code composes *)

Cur == [toolmap |-> toolmap, decls |-> decls, chat |-> chat, started |-> started,
        stack |-> stack, act |-> act, ret |-> ret, inputs |-> inputs,
        boot |-> boot, win |-> win, cnt |-> cnt, chain |-> chain,
        argv |-> argv, rd |-> rd, hist |-> hist,
        logger |-> AgentLogger]

Set(s) ==
    /\ toolmap' = s.toolmap
    /\ decls' = s.decls
    /\ chat' = s.chat
    /\ started' = s.started
    /\ stack' = s.stack
    /\ act' = s.act
    /\ ret' = s.ret
    /\ inputs' = s.inputs
    /\ boot' = s.boot
    /\ win' = s.win
    /\ cnt' = s.cnt
    /\ chain' = s.chain
    /\ argv' = s.argv
    /\ rd' = s.rd
    /\ hist' = s.hist
    /\ UNCHANGED <<Tools, ctx, drive, job>>

\* an event of expert ev.e's Ask or Call
Emit(s, ev) == [s EXCEPT !.win[ev.e] = Append(@, ev)]
\* an event of Start
EmitBoot(s, ev) == [s EXCEPT !.boot = Append(@, ev)]

Pop(s) == [s EXCEPT !.stack = SubSeq(@, 1, Len(@) - 1)]
Top(s) == s.stack[Len(s.stack)]
Push(s, f) == [s EXCEPT !.stack = Append(@, f)]
OnStack(s, e) == \E i \in 1..Len(s.stack) : s.stack[i].e = e

NilChat == [id |-> 0, n |-> 0]
NilMap == [n \in Names |-> NoTool]
ZeroCnt == [asks |-> 0, sends |-> 0, turns |-> 0, calls |-> 0]

\* a Send on e's session returns: e's window starts again with that event,
\* and the windows of the delegates that have returned are dropped
Window(s, e, ev) ==
    [s EXCEPT !.win = [d \in Experts |->
                          IF d = e THEN <<ev>>
                          ELSE IF OnStack(s, d) THEN s.win[d] ELSE <<>>]]

-----------------------------------------------------------------------------
(* expert.Expert.Start *)

\* Tool.Declare().Name: an Expert declares its own Name
Declare(t) == IF t \in Experts THEN t ELSE LeafName

\* e.toolmap[name] with its "exists" result; a nil map holds nothing
Lookup(m, name) == IF m = Nil THEN NoTool ELSE m[name]

\* a variant of Register that keeps the tool a name was first bound to
RegisterKeepsFirst(s, e, i) ==
    LET t == Tools[e][i]
    IN  [s EXCEPT !.decls[e] = Append(@, Declare(t)),
                  !.toolmap[e][Declare(t)] = IF @ = NoTool THEN t ELSE @]

\* a variant of Register that puts the new schema in front of the list
RegisterPrepends(s, e, i) ==
    LET t == Tools[e][i]
    IN  [s EXCEPT !.decls[e] = <<Declare(t)>> \o @,
                  !.toolmap[e][Declare(t)] = t]

\* lines 59-61: the i-th tool has started; record its schema and its name
Register(s, e, i) ==
    LET t == Tools[e][i]
    IN  [s EXCEPT !.decls[e] = Append(@, Declare(t)),
                  !.toolmap[e][Declare(t)] = t]

RECURSIVE ExpertStart(_, _)
RECURSIVE StartLoop(_, _, _)

\* lines 55-56 and 64-65: the loop over e.Tools from index i, up to the call
\* the program blocks in: a leaf tool's Start, or Chats.Create
StartLoop(s, e, i) ==
    IF i > Len(Tools[e])
    THEN [EmitBoot(s, [k |-> "Create", e |-> e]) EXCEPT !.act = [k |-> "create", e |-> e]]
    ELSE LET t == Tools[e][i]
             s1 == EmitBoot(s, [k |-> "ToolStart", e |-> e, t |-> t])
         IN  IF t \in Experts
             THEN ExpertStart(Push(s1, [op |-> "Start", e |-> e, i |-> i]), t)
             ELSE [s1 EXCEPT !.act = [k |-> "toolstart", e |-> e, i |-> i]]

\* lines 47-54
ExpertStart(s, e) ==
    IF Len(Tools[e]) > 0
    THEN StartLoop([s EXCEPT !.toolmap[e] = NilMap, !.decls[e] = <<>>], e, 1)
    ELSE StartLoop(s, e, 1)

\* Agent.Run lines 48-56 once Agent.Start returned nil: the REPL prompts
RunStarted(s) == [s EXCEPT !.started = TRUE, !.act = [k |-> "read"]]

\* Expert.Start of e returns nil (line 69) to its caller: Agent.Start, or
\* the loop of the parent's Start (line 56), which goes on at line 59
StartOk(s, e) ==
    IF s.stack = <<>>
    THEN RunStarted(s)
    ELSE LET f == Top(s)
         IN  StartLoop(Register(Pop(s), f.e, f.i), f.e, f.i + 1)

\* a Start fails (lines 57, 67): every enclosing Start returns the error,
\* and so do Agent.Start and Agent.Run
StartFail(s, err) == [s EXCEPT !.stack = <<>>, !.act = [k |-> "exit", err |-> err]]

\* number of sessions created so far
Created(s) == Cardinality({e \in Experts : s.chat[e].id # 0})

-----------------------------------------------------------------------------
(* expert.Expert.Ask and expert.Expert.Call *)

\* what the logger l prints for a hook call: the Agent prints the name, the
\* prompt character and the text
logMultiline(l, name, promptChar, text) ==
    IF l = AgentLogger THEN <<name, promptChar>> \o text ELSE <<>>

\* a variant of LogResponse where the Agent's logger also counts a tool call
LogResponseSteers(s, name, text) ==
    LET s1 == Emit(s, [k |-> "LogResponse", e |-> name, text |-> text,
                       out |-> logMultiline(s.logger, name, ":", text)])
    IN  IF s.logger = AgentLogger THEN [s1 EXCEPT !.cnt[name].calls = @ + 1] ELSE s1

LogQuestion(s, name, text) ==
    Emit(s, [k |-> "LogQuestion", e |-> name, text |-> text,
             out |-> logMultiline(s.logger, name, ">", text)])
LogResponse(s, name, text) ==
    Emit(s, [k |-> "LogResponse", e |-> name, text |-> text,
             out |-> logMultiline(s.logger, name, ":", text)])

\* a variant of Ask that sends its input parts twice over
AskDuplicatesPart(s, e, w, parts, by) ==
    LET s1 == [s EXCEPT !.cnt[e].asks = IF by = "Ask" THEN @ ELSE @ + 1]
        s2 == Emit(s1, [k |-> "Ask", e |-> e, by |-> by, parts |-> parts])
        s3 == Emit(s2, [k |-> "Send", e |-> e, chat |-> s.chat[e].id, parts |-> parts \o parts])
    IN  [s3 EXCEPT !.chat[e].n = @ + 1,
                   !.cnt[e].sends = @ + 1,
                   !.act = [k |-> "send", e |-> e, w |-> w]]

\* Ask lines 73-74: entry, and the Send it blocks in.  by is the caller:
\* "Run", "Call", or "Ask" for the recursion of line 116
Ask(s, e, w, parts, by) ==
    LET s1 == [s EXCEPT !.cnt[e].asks = IF by = "Ask" THEN @ ELSE @ + 1]
        s2 == Emit(s1, [k |-> "Ask", e |-> e, by |-> by, parts |-> parts])
        s3 == Emit(s2, [k |-> "Send", e |-> e, chat |-> s.chat[e].id, parts |-> parts])
    IN  [s3 EXCEPT !.chat[e].n = @ + 1,
                   !.cnt[e].sends = @ + 1,
                   !.act = [k |-> "send", e |-> e, w |-> w]]

\* a variant of Respond that leaves the ID and Name the tool has set
RespondKeepsID(s, e, w, fc, resp) ==
    LET s1 == Emit(s, [k |-> "CallReturn", e |-> e, resp |-> resp])
        s2 == LogQuestion(s1, e, <<"Processing response of", resp.Name>>)
    IN  Ask(s2, e, w, <<ResponsePart(resp)>>, "Ask")

\* a variant of Respond that replaces the message of an "error" payload
RespondRewritesError(s, e, w, fc, resp) ==
    LET p == IF HasKey(resp.Response, "error") THEN ErrorPayload("tool failed")
             ELSE resp.Response
        r == [resp EXCEPT !.ID = fc.ID, !.Name = fc.Name, !.Response = p]
        s1 == Emit(s, [k |-> "CallReturn", e |-> e, resp |-> resp])
        s2 == LogQuestion(s1, e, <<"Processing response of", r.Name>>)
    IN  Ask(s2, e, w, <<ResponsePart(r)>>, "Ask")

\* Ask lines 110-116: tool.Call returned resp for the call fc
Respond(s, e, w, fc, resp) ==
    LET r == [resp EXCEPT !.ID = fc.ID, !.Name = fc.Name]
        s1 == Emit(s, [k |-> "CallReturn", e |-> e, resp |-> resp])
        s2 == LogQuestion(s1, e, <<"Processing response of", r.Name>>)
    IN  Ask(s2, e, w, <<ResponsePart(r)>>, "Ask")

\* what Agent.Run prints for one part of the final content (lines 89-96)
Printed(part) == IF part.Text # "" THEN part.Text ELSE "unhandled part type"

\* Agent.Run lines 83-97: the top-level Ask returned v
RunResume(s, v) ==
    IF v.err # NoErr
    THEN [s EXCEPT !.ret = v, !.act = [k |-> "exit", err |-> "failed to send message to Gemini"]]
    ELSE LET ps == v.content.Parts
             out == [j \in 1..Len(ps) |->
                        [k |-> "Write", e |-> Root, w |-> "stdout", by |-> "Run",
                         text |-> Printed(ps[j])]]
         IN  [s EXCEPT !.ret = v, !.win[Root] = @ \o out, !.act = [k |-> "read"]]

\* the texts of a part list, joined
RECURSIVE Joined(_)
Joined(parts) == IF parts = <<>> THEN "" ELSE parts[1].Text \o Joined(Tail(parts))

\* a variant of CallResume whose output is the text of every part
CallResumeJoins(s, d, v) ==
    LET f == Top(s)
        s0 == Pop(s)
    IN  IF v.err # NoErr
        THEN Respond(s0, f.e, f.w, f.fc,
                     FunctionResponse("", "", ErrorPayload("something went wrong while calling the expert")))
        ELSE IF Len(v.content.Parts) = 0
        THEN [Emit(s, [k |-> "Panic", e |-> d]) EXCEPT !.act = [k |-> "panic"]]
        ELSE LET r == Joined(v.content.Parts)
             IN  Respond(LogResponse(s0, d, <<r>>), f.e, f.w, f.fc,
                         FunctionResponse("", "", OutputPayload(r)))

\* a variant of CallResume where the error of the delegate's Ask ends the
\* caller's Ask as well
CallResumePropagates(s, d, v) ==
    LET f == Top(s)
        s0 == Pop(s)
    IN  IF v.err # NoErr
        THEN LET s1 == Emit(s0, [k |-> "AskReturn", e |-> f.e, content |-> Nil, err |-> v.err])
             IN  [s1 EXCEPT !.ret = AskResult(Nil, v.err),
                            !.act = [k |-> "exit", err |-> "failed to send message to Gemini"]]
        ELSE IF Len(v.content.Parts) = 0
        THEN [Emit(s, [k |-> "Panic", e |-> d]) EXCEPT !.act = [k |-> "panic"]]
        ELSE LET r == v.content.Parts[1].Text
             IN  Respond(LogResponse(s0, d, <<r>>), f.e, f.w, f.fc,
                         FunctionResponse("", "", OutputPayload(r)))

\* Call lines 158-170: the delegate d's Ask returned v; the caller's Ask,
\* suspended at line 109, is the top frame
CallResume(s, d, v) ==
    LET f == Top(s)
        s0 == Pop(s)
    IN  IF v.err # NoErr
        THEN Respond(s0, f.e, f.w, f.fc,
                     FunctionResponse("", "", ErrorPayload("something went wrong while calling the expert")))
        ELSE IF Len(v.content.Parts) = 0
        THEN \* line 164: index out of range, nothing recovers
             [Emit(s, [k |-> "Panic", e |-> d]) EXCEPT !.act = [k |-> "panic"]]
        ELSE LET r == v.content.Parts[1].Text
             IN  Respond(LogResponse(s0, d, <<r>>), f.e, f.w, f.fc,
                         FunctionResponse("", "", OutputPayload(r)))

\* the chain of Asks of e returns v (lines 76, 79, 93, 103, 116)
Return(s, e, v) ==
    LET s1 == Emit(s, [k |-> "AskReturn", e |-> e, content |-> v.content, err |-> v.err])
    IN  IF s.stack = <<>> THEN RunResume(s1, v) ELSE CallResume(s1, e, v)

\* a variant of Call that first reports the delegation on the caller's session
CallNotifiesCaller(s0, e, w, d, fc) ==
    LET s == [s0 EXCEPT !.win[d] = <<>>, !.cnt[d] = ZeroCnt]
        arg0 == fc.Args.question
    IN  IF arg0.type # "string"
        THEN Respond(s, e, w, fc, FunctionResponse("", "", ErrorPayload("invalid type")))
        ELSE LET s1 == LogQuestion(s, d, <<arg0.v>>)
                 s2 == Push(s1, [op |-> "Ask", e |-> e, i |-> 0, w |-> w, fc |-> fc])
                 s3 == Emit(s2, [k |-> "Send", e |-> e, chat |-> s.chat[e].id,
                                 parts |-> <<TextPart(arg0.v)>>])
             IN  Ask([s3 EXCEPT !.chat[e].n = @ + 1], d, "discard", <<TextPart(arg0.v)>>, "Call")

\* a variant of Call that asks the delegate whatever the argument is
CallAsksAnyway(s0, e, w, d, fc) ==
    LET s == [s0 EXCEPT !.win[d] = <<>>, !.cnt[d] = ZeroCnt]
        arg0 == fc.Args.question
        s1 == LogQuestion(s, d, <<arg0.v>>)
        s2 == Push(s1, [op |-> "Ask", e |-> e, i |-> 0, w |-> w, fc |-> fc])
    IN  Ask(s2, d, "discard", <<TextPart(arg0.v)>>, "Call")

\* Call lines 146-157: the delegate d is asked by e's Ask (line 109)
Call(s0, e, w, d, fc) ==
    LET s == [s0 EXCEPT !.win[d] = <<>>, !.cnt[d] = ZeroCnt] IN
    LET arg0 == fc.Args.question
    IN  IF arg0.type # "string"
        THEN Respond(s, e, w, fc, FunctionResponse("", "", ErrorPayload("invalid type")))
        ELSE LET s1 == LogQuestion(s, d, <<arg0.v>>)
                 s2 == Push(s1, [op |-> "Ask", e |-> e, i |-> 0, w |-> w, fc |-> fc])
             IN  Ask(s2, d, "discard", <<TextPart(arg0.v)>>, "Call")

\* a variant of UnknownFunction that feeds the failure back to the model
UnknownSelfHeals(s, e, w, fc) ==
    Respond(s, e, w, fc, FunctionResponse("", "", ErrorPayload("unknown function")))

\* Ask line 103: the name of the call is not in e.toolmap
UnknownFunction(s, e, w, fc) == Return(s, e, AskResult(Nil, UnknownErr))

\* a variant of Dispatch that logs "Calling" once the tool has been entered
DispatchLogsLate(s, e, w, fc) ==
    LET tool == Lookup(s.toolmap[e], fc.Name)
    IN  IF tool = NoTool
        THEN UnknownFunction(s, e, w, fc)
        ELSE LET s1 == Emit(s, [k |-> "Call", e |-> e, t |-> tool, args |-> fc.Args])
                 s2 == LogResponse(s1, e, <<"Calling", fc.Name>>)
                 s3 == [s2 EXCEPT !.cnt[e].calls = @ + 1]
             IN  IF tool \in Experts
                 THEN Call(s3, e, w, tool, fc)
                 ELSE [s3 EXCEPT !.act = [k |-> "call", e |-> e, w |-> w, t |-> tool, fc |-> fc]]

\* a variant of Dispatch that looks every name up in the root's registry
DispatchInRootRegistry(s, e, w, fc) ==
    LET tool == Lookup(s.toolmap[Root], fc.Name)
    IN  IF tool = NoTool \/ tool = e
        THEN UnknownFunction(s, e, w, fc)
        ELSE LET s1 == LogResponse(s, e, <<"Calling", fc.Name>>)
                 s2 == Emit(s1, [k |-> "Call", e |-> e, t |-> tool, args |-> fc.Args])
                 s3 == [s2 EXCEPT !.cnt[e].calls = @ + 1]
             IN  IF tool \in Experts
                 THEN Call(s3, e, w, tool, fc)
                 ELSE [s3 EXCEPT !.act = [k |-> "call", e |-> e, w |-> w, t |-> tool, fc |-> fc]]

\* Ask lines 100-109: the first function call of the turn
Dispatch(s, e, w, fc) ==
    LET tool == Lookup(s.toolmap[e], fc.Name)
    IN  IF tool = NoTool
        THEN UnknownFunction(s, e, w, fc)
        ELSE LET s1 == LogResponse(s, e, <<"Calling", fc.Name>>)
                 s2 == Emit(s1, [k |-> "Call", e |-> e, t |-> tool, args |-> fc.Args])
                 s3 == [s2 EXCEPT !.cnt[e].calls = @ + 1]
             IN  IF tool \in Experts
                 THEN Call(s3, e, w, tool, fc)
                 ELSE [s3 EXCEPT !.act = [k |-> "call", e |-> e, w |-> w, t |-> tool, fc |-> fc]]

\* line 78
NoParts(resp) ==
    \/ Len(resp.Candidates) = 0
    \/ resp.Candidates[1].Content = Nil
    \/ Len(resp.Candidates[1].Content.Parts) = 0

\* lines 84-90
HasFunctionCall(rparts) == \E i \in 1..Len(rparts) : rparts[i].FunctionCall # Nil

\* a variant of FirstCall that stops at the last function call
LastCall(rparts) ==
    CHOOSE i \in 1..Len(rparts) :
        /\ rparts[i].FunctionCall # Nil
        /\ \A j \in (i + 1)..Len(rparts) : rparts[j].FunctionCall = Nil

\* index of the part the loop of line 96 stops at
FirstCall(rparts) ==
    CHOOSE i \in 1..Len(rparts) :
        /\ rparts[i].FunctionCall # Nil
        /\ \A j \in 1..(i - 1) : rparts[j].FunctionCall = Nil

\* a variant of Written that leaves out the text of the part holding the call
WrittenBeforeCall(rparts, i) ==
    SelectSeq(SubSeq(rparts, 1, i - 1), LAMBDA p : p.Text # "")

\* lines 96-99: the texts written to w up to and including part i
Written(rparts, i) == SelectSeq(SubSeq(rparts, 1, i), LAMBDA p : p.Text # "")

\* a variant of CallTurn with a budget of one dispatch for each Ask
CallTurnBudget(s, e, w, rparts) ==
    LET i == FirstCall(rparts)
        ws == Written(rparts, i)
        out == [j \in 1..Len(ws) |->
                   [k |-> "Write", e |-> e, w |-> w, by |-> "Ask", text |-> ws[j].Text]]
    IN  IF s.cnt[e].turns >= 1
        THEN Return(s, e, AskResult(Nil, "too many calls"))
        ELSE Dispatch([s EXCEPT !.win[e] = @ \o out, !.cnt[e].turns = @ + 1, !.chain = @ + 1],
                      e, w, rparts[i].FunctionCall)

\* Ask lines 96-118: the turn holds a function call
CallTurn(s, e, w, rparts) ==
    LET i == FirstCall(rparts)
        ws == Written(rparts, i)
        out == [j \in 1..Len(ws) |->
                   [k |-> "Write", e |-> e, w |-> w, by |-> "Ask", text |-> ws[j].Text]]
    IN  Dispatch([s EXCEPT !.win[e] = @ \o out, !.cnt[e].turns = @ + 1, !.chain = @ + 1],
                 e, w, rparts[i].FunctionCall)

\* a variant of TextTurn that also writes the texts of the turn
TextTurnEchoes(s, e, content) ==
    LET ws == SelectSeq(content.Parts, LAMBDA p : p.Text # "")
        out == [j \in 1..Len(ws) |->
                   [k |-> "Write", e |-> e, w |-> "stdout", by |-> "Ask", text |-> ws[j].Text]]
    IN  Return([s EXCEPT !.win[e] = @ \o out], e, AskResult(content, NoErr))

\* a variant of TextTurn that returns an empty content
TextTurnDropsContent(s, e, content) == Return(s, e, AskResult(EmptyContent, NoErr))

\* Ask lines 92-94: the turn holds no function call
TextTurn(s, e, content) == Return(s, e, AskResult(content, NoErr))

\* a variant of EmptyTurn that reports the empty turn as an error
EmptyTurnFails(s, e) == Return(s, e, AskResult(Nil, "no response from expert"))

\* Ask lines 78-80: the turn holds no part
EmptyTurn(s, e) == Return(s, e, AskResult(EmptyContent, NoErr))

\* a variant of AskFail that swallows the error of Send
AskFailSwallows(s, e, w) == Return(s, e, AskResult(EmptyContent, NoErr))

\* Ask lines 75-77: Send returned an error
AskFail(s, e, w) == Return(s, e, AskResult(Nil, SendErr))

\* Ask lines 78-118: Send returned resp with a nil error
AskResume(s, e, w, resp) ==
    IF NoParts(resp)
    THEN EmptyTurn(s, e)
    ELSE LET rparts == resp.Candidates[1].Content.Parts
         IN  IF ~HasFunctionCall(rparts)
             THEN TextTurn(s, e, resp.Candidates[1].Content)
             ELSE CallTurn(s, e, w, rparts)

-----------------------------------------------------------------------------
(* Actions *)

Init ==
    /\ Tools \in {[e \in Experts |-> IF e = Root THEN r ELSE <<"t3">>] : r \in RootTools}
    /\ toolmap = [e \in Experts |-> Nil]
    /\ decls = [e \in Experts |-> <<>>]
    /\ chat = [e \in Experts |-> NilChat]
    /\ started = FALSE
    /\ stack = <<>>
    /\ act = [k |-> "new"]
    /\ ret = NoResult
    /\ inputs = 0
    /\ ctx = "live"
    /\ boot = <<>>
    /\ win = [e \in Experts |-> <<>>]
    /\ cnt = [e \in Experts |-> ZeroCnt]
    /\ chain = 0
    /\ argv = <<>>
    /\ rd = NoReader
    /\ hist = <<>>
    /\ drive = NoDrive
    /\ job = NoJob

\* Agent.Run lines 43-49: not started yet, so Agent.Start, so Expert.Start
Run ==
    /\ act.k = "new"
    /\ ~started
    /\ Set(ExpertStart(Cur, Root))

\* a leaf tool's Start returns (line 56)
ToolStartReturn ==
    /\ act.k = "toolstart"
    /\ \E ok \in BOOLEAN :
          IF ok
          THEN Set(StartLoop(Register(Cur, act.e, act.i), act.e, act.i + 1))
          ELSE Set(StartFail(EmitBoot(Cur, [k |-> "StartFailed", e |-> act.e]), "tool start failed"))

\* client.Chats.Create returns (lines 65-69)
CreateReturn ==
    /\ act.k = "create"
    /\ \E ok \in BOOLEAN :
          IF ok
          THEN Set(StartOk([EmitBoot(Cur, [k |-> "Created", e |-> act.e])
                               EXCEPT !.chat[act.e] = [NilChat EXCEPT !.id = Created(Cur) + 1]],
                           act.e))
          ELSE Set(StartFail(EmitBoot(Cur, [k |-> "StartFailed", e |-> act.e]), "create failed"))

\* Agent.Run lines 56-83: one input is read, of at most max; "bye" ends the
\* REPL
ReadInput(max) ==
    /\ act.k = "read"
    /\ inputs < max
    /\ \E in \in Questions \cup {"bye"} :
          LET s == [Cur EXCEPT !.inputs = @ + 1, !.ret = NoResult,
                                   !.win = [e \in Experts |-> <<>>],
                                   !.cnt = [e \in Experts |-> ZeroCnt],
                                   !.chain = 0]
          IN  IF in = "bye"
              THEN Set([s EXCEPT !.act = [k |-> "exit", err |-> NoErr]])
              ELSE Set(Ask(s, Root, "stdout", <<TextPart(in)>>, "Run"))

\* Chat.Send returns a response (line 74, err = nil)
SendReturn ==
    /\ act.k = "send"
    /\ ctx = "live"
    /\ \E resp \in Responses :
          /\ (~NoParts(resp) /\ HasFunctionCall(resp.Candidates[1].Content.Parts))
                => chain < MaxChain
          /\ Set(AskResume(Window(Cur, act.e, [k |-> "Recv", e |-> act.e, resp |-> resp]),
                           act.e, act.w, resp))

\* Chat.Send fails (lines 75-77)
SendFail ==
    /\ act.k = "send"
    /\ Set(AskFail(Window(Cur, act.e, [k |-> "SendFailed", e |-> act.e]), act.e, act.w))

\* a leaf tool's Call returns (line 109)
LeafCallReturn ==
    /\ act.k = "call"
    /\ \E r \in LeafResponses : Set(Respond(Cur, act.e, act.w, act.fc, r))

Next ==
    \/ Run
    \/ ToolStartReturn
    \/ CreateReturn
    \/ ReadInput(1)
    \/ SendReturn
    \/ SendFail
    \/ LeafCallReturn

\* Agent.Run from its construction to the end of its first input
Spec == Init /\ [][Next]_vars

\* Agent.Run lines 43-56, invoked again on an Agent that is started: Start is
\* skipped and the REPL prompts
\* a variant of RunAgain that starts the expert again
RunAgainRestarts ==
    /\ act.k = "exit"
    /\ started
    /\ inputs < MaxInputs
    /\ Set(ExpertStart(EmitBoot(Cur, [k |-> "Run", e |-> Root, after |-> act.err]), Root))

RunAgain ==
    /\ act.k = "exit"
    /\ started
    /\ inputs < MaxInputs
    /\ Set([EmitBoot(Cur, [k |-> "Run", e |-> Root, after |-> act.err])
               EXCEPT !.act = [k |-> "read"]])

\* the responses of the model service over several inputs: no candidate, an
\* empty part list, one text, or one function call
RunResponses ==
    {[Candidates |-> <<>>]}
    \cup {[Candidates |-> <<[Content |-> Content(ps)]>>] :
             ps \in {<<>>, <<TextPart("hello")>>} \cup {<<CallPart("", fc)>> : fc \in ModelCalls}}

\* Chat.Send returns one of these responses (line 74, err = nil)
SendReturnRun ==
    /\ act.k = "send"
    /\ ctx = "live"
    /\ \E resp \in RunResponses :
          /\ (~NoParts(resp) /\ HasFunctionCall(resp.Candidates[1].Content.Parts))
                => chain < MaxChain
          /\ Set(AskResume(Window(Cur, act.e, [k |-> "Recv", e |-> act.e, resp |-> resp]),
                           act.e, act.w, resp))

NextRun ==
    \/ Run
    \/ ToolStartReturn
    \/ CreateReturn
    \/ ReadInput(MaxInputs)
    \/ SendReturnRun
    \/ SendFail
    \/ LeafCallReturn
    \/ RunAgain

\* Agent.Run, invoked any number of times, over MaxInputs inputs
SpecRun == Init /\ [][NextRun]_vars

\* the caller cancels the context while the program is blocked in a Send or
\* in a leaf tool's Call; a Send on a cancelled context returns an error
Cancel ==
    /\ act.k \in {"send", "call"}
    /\ ctx = "live"
    /\ ctx' = "cancelled"
    /\ UNCHANGED <<Tools, toolmap, decls, chat, started, stack, act, ret, inputs,
                   boot, win, cnt, chain, argv, rd, hist, drive, job>>

NextCancel ==
    \/ Next
    \/ Cancel

\* Agent.Run up to the end of its first input, under a context that may be
\* cancelled
SpecCancel == Init /\ [][NextCancel]_vars

\* strings.TrimSpace on a sequence of characters
RECURSIVE TrimLeft(_)
TrimLeft(cs) == IF cs # <<>> /\ Head(cs) \in Space THEN TrimLeft(Tail(cs)) ELSE cs
RECURSIVE TrimRight(_)
TrimRight(cs) ==
    IF cs # <<>> /\ cs[Len(cs)] \in Space THEN TrimRight(SubSeq(cs, 1, Len(cs) - 1)) ELSE cs
TrimSpace(cs) == TrimRight(TrimLeft(cs))

\* the string that a sequence of characters spells
RECURSIVE ToStr(_)
ToStr(cs) == IF cs = <<>> THEN "" ELSE Head(cs) \o ToStr(Tail(cs))

\* Agent.Run line 55: the loop starts over; what the windows and counters
\* observe starts over with it, the count of top-level Asks excepted
Prompt(s) ==
    [s EXCEPT !.inputs = @ + 1, !.ret = NoResult,
              !.win = [e \in Experts |-> <<>>],
              !.cnt = [e \in Experts |-> [ZeroCnt EXCEPT !.asks = s.cnt[e].asks]],
              !.chain = 0]

\* Agent.Run lines 79-83: the input is "bye", or it is asked
Submit(s, input) ==
    IF TrimSpace(input) = Bye
    THEN [s EXCEPT !.act = [k |-> "exit", err |-> NoErr]]
    ELSE Ask(s, Root, "stdout", <<TextPart(ToStr(TrimSpace(input)))>>, "Run")

\* Agent.Run lines 60-66 and 79-83: an argument is left
ReadArg ==
    /\ act.k = "read"
    /\ argv # <<>>
    /\ LET input == TrimSpace(Head(argv))
           s == [Prompt(Cur) EXCEPT !.argv = Tail(@),
                                    !.hist = Append(@, [src |-> "arg", raw |-> Head(argv)])]
       IN  IF input = <<>>
           THEN Set(s)
           ELSE Set(Submit(s, input))

\* Agent.Run lines 67-83: no argument is left, the reader is read up to a
\* newline
ReadLine ==
    /\ act.k = "read"
    /\ argv = <<>>
    /\ IF rd.lines # <<>>
       THEN LET input == Head(rd.lines)
                s == [Prompt(Cur) EXCEPT !.rd.lines = Tail(@),
                                         !.hist = Append(@, [src |-> "line", raw |-> input])]
            IN  Set(Submit(s, input))
       ELSE LET s == [Prompt(Cur) EXCEPT !.rd.rest = <<>>,
                                         !.hist = Append(@, [src |-> rd.err, raw |-> rd.rest])]
            IN  Set([s EXCEPT !.act = [k |-> "exit",
                                      err |-> IF rd.err = EOF THEN NoErr ELSE ReadErr]])

\* the responses of the model service in the runs over arguments and lines
ReplResponses ==
    {[Candidates |-> <<[Content |-> Content(ps)]>>] :
        ps \in {<<TextPart("hello")>>, <<CallPart("", FunctionCall(LeafName, "id1", MkArgs(Str("a"))))>>}}

\* Chat.Send returns one of these responses (line 74, err = nil)
SendReturnRepl ==
    /\ act.k = "send"
    /\ ctx = "live"
    /\ \E resp \in ReplResponses :
          /\ HasFunctionCall(resp.Candidates[1].Content.Parts) => chain < MaxChain
          /\ Set(AskResume(Window(Cur, act.e, [k |-> "Recv", e |-> act.e, resp |-> resp]),
                           act.e, act.w, resp))

\* a leaf tool's Call returns its output
LeafCallReturnRepl ==
    /\ act.k = "call"
    /\ Set(Respond(Cur, act.e, act.w, act.fc, FunctionResponse("", "", OutputPayload("data"))))

\* Agent.Run is given arguments and a reader
InitRepl ==
    /\ Tools = [e \in Experts |-> IF e = Root THEN <<Sub, "t1">> ELSE <<"t3">>]
    /\ toolmap = [e \in Experts |-> Nil]
    /\ decls = [e \in Experts |-> <<>>]
    /\ chat = [e \in Experts |-> NilChat]
    /\ started = FALSE
    /\ stack = <<>>
    /\ act = [k |-> "new"]
    /\ ret = NoResult
    /\ inputs = 0
    /\ ctx = "live"
    /\ boot = <<>>
    /\ win = [e \in Experts |-> <<>>]
    /\ cnt = [e \in Experts |-> ZeroCnt]
    /\ chain = 0
    /\ argv \in SeqsUpTo(ArgValues, MaxArgs)
    /\ rd \in Readers
    /\ hist = <<>>
    /\ drive = NoDrive
    /\ job = NoJob

NextRepl ==
    \/ Run
    \/ ToolStartReturn
    \/ CreateReturn
    \/ ReadArg
    \/ ReadLine
    \/ SendReturnRepl
    \/ SendFail
    \/ LeafCallReturnRepl

\* one invocation of Agent.Run over its arguments and its reader
SpecRepl == InitRepl /\ [][NextRepl]_vars

-----------------------------------------------------------------------------
(* b3app.App.DeleteFile and the tools that call it *)

\* Files.Delete: the file goes, and with a folder everything below it
RECURSIVE Below(_, _, _)
Below(d, S, n) ==
    IF n = 0 THEN S
    ELSE Below(d, S \cup {c \in d.files : d.parents[c] \cap S # {}}, n - 1)
FilesDelete(d, fileID) ==
    [d EXCEPT !.files = @ \ Below(d, {fileID}, Cardinality(Nodes))]

\* drive.go lines 332-350: Files.Get(fileID), then the parents, one by one,
\* the error of a recursive call being dropped
RECURSIVE isFileInFolder(_, _, _, _)
isFileInFolder(d, env, fileID, folderID) ==
    IF fileID \notin d.files \/ fileID \in env.bad
    THEN [in |-> FALSE, err |-> "unable to get file metadata"]
    ELSE [in |-> \E parentID \in d.parents[fileID] :
                    \/ parentID = folderID
                    \/ LET r == isFileInFolder(d, env, parentID, folderID)
                       IN  r.err = NoErr /\ r.in,
          err |-> NoErr]

\* a variant of DeleteFile without the safety check
DeleteFileUnchecked(d, env, fileID) ==
    IF ~env.found
    THEN [drive |-> d, err |-> "'B4' folder not found"]
    ELSE IF fileID \notin d.files \/ ~env.deletes
    THEN [drive |-> d, err |-> "failed to delete file"]
    ELSE [drive |-> FilesDelete(d, fileID), err |-> NoErr]

\* drive.go lines 353-373
DeleteFile(d, env, fileID) ==
    IF ~env.found
    THEN [drive |-> d, err |-> "'B4' folder not found"]
    ELSE LET r == isFileInFolder(d, env, fileID, B4)
         IN  IF r.err # NoErr
             THEN [drive |-> d, err |-> "could not verify file location for deletion"]
             ELSE IF ~r.in
             THEN [drive |-> d, err |-> "safety check failed"]
             ELSE IF ~env.deletes
             THEN [drive |-> d, err |-> "failed to delete file"]
             ELSE [drive |-> FilesDelete(d, fileID), err |-> NoErr]

\* the ids a call may name
FileIds == SeqsUpTo(Nodes, MaxIds) \ {<<>>}

\* B4DeleteTool.Call lines 108-133: the ids are read, the loop is entered
B4DeleteCall ==
    /\ job.pend = <<>>
    /\ drive # NoDrive
    /\ \E fileIDs \in FileIds :
          job' = [NoJob EXCEPT !.tool = "B4Delete", !.pend = fileIDs]
    /\ UNCHANGED <<Tools, toolmap, decls, chat, started, stack, act, ret, inputs, ctx,
                   boot, win, cnt, chain, argv, rd, hist, drive>>

\* B4MergeTool.Call lines 64-214 up to its loop over the sources: the call
\* fails before anything is written, or the merged document is in B4 (a
\* new one, or the target updated in place) and the sources are deleted if
\* delete_sources is set
B4MergeCall ==
    /\ job.pend = <<>>
    /\ drive # NoDrive
    /\ \E fileIDs \in FileIds, deleteSources \in BOOLEAN, ok \in BOOLEAN :
          IF ok /\ \A i \in 1..Len(fileIDs) : fileIDs[i] \in drive.files \ Folders
          THEN /\ drive' = [drive EXCEPT !.files = @ \cup {"m"}]
               /\ job' = [NoJob EXCEPT !.tool = "B4Merge",
                                       !.pend = IF deleteSources THEN fileIDs ELSE <<>>]
          ELSE /\ drive' = drive
               /\ job' = [NoJob EXCEPT !.tool = "B4Merge", !.err = "merge failed"]
    /\ UNCHANGED <<Tools, toolmap, decls, chat, started, stack, act, ret, inputs, ctx,
                   boot, win, cnt, chain, argv, rd, hist>>

\* one turn of the loop of B4DeleteTool.Call (lines 138-144) or of
\* B4MergeTool.Call (lines 208-214): DeleteFile on the next id, its error
\* kept as a warning
DeleteNext ==
    /\ job.pend # <<>>
    /\ \E env \in DriveAnswers :
          LET id == Head(job.pend)
              r == DeleteFile(drive, env, id)
          IN  /\ drive' = r.drive
              /\ job' = [job EXCEPT !.pend = Tail(@), !.id = id, !.env = env, !.err = r.err]
    /\ UNCHANGED <<Tools, toolmap, decls, chat, started, stack, act, ret, inputs, ctx,
                   boot, win, cnt, chain, argv, rd, hist>>

\* a Drive with a B4 folder in its root; no tool call has been made
InitDrive ==
    /\ Tools = [e \in Experts |-> IF e = Root THEN <<Sub, "t1">> ELSE <<"t3">>]
    /\ toolmap = [e \in Experts |-> Nil]
    /\ decls = [e \in Experts |-> <<>>]
    /\ chat = [e \in Experts |-> NilChat]
    /\ started = FALSE
    /\ stack = <<>>
    /\ act = [k |-> "new"]
    /\ ret = NoResult
    /\ inputs = 0
    /\ ctx = "live"
    /\ boot = <<>>
    /\ win = [e \in Experts |-> <<>>]
    /\ cnt = [e \in Experts |-> ZeroCnt]
    /\ chain = 0
    /\ argv = <<>>
    /\ rd = NoReader
    /\ hist = <<>>
    /\ drive \in {[files |-> Nodes \ {"m"}, parents |-> p] : p \in DriveParents}
    /\ job = NoJob

NextDrive ==
    \/ B4DeleteCall
    \/ B4MergeCall
    \/ DeleteNext

\* any sequence of B4Delete and B4Merge calls on a Drive
SpecDrive == InitDrive /\ [][NextDrive]_vars

-----------------------------------------------------------------------------
(* Reading the observers *)

Has(e, kind) == \E i \in 1..Len(win[e]) : win[e][i].k = kind
Ev(e, kind) == SelectSeq(win[e], LAMBDA ev : ev.k = kind)

\* the last Send on e's session returned a response
Received(e) == Len(win[e]) > 0 /\ win[e][1].k = "Recv"
\* the parts a response holds
PartsOf(resp) ==
    IF resp.Candidates = <<>> THEN <<>>
    ELSE IF resp.Candidates[1].Content = Nil THEN <<>>
    ELSE resp.Candidates[1].Content.Parts
\* the indexes of the parts that hold a function call
CallIndexes(parts) == {i \in 1..Len(parts) : parts[i].FunctionCall # Nil}
\* the least element of a non-empty set of numbers
Least(S) == CHOOSE i \in S : \A j \in S : i <= j
\* the parts of the response e received last
Turn(e) == PartsOf(win[e][1].resp)
\* that response holds a function call, and the first one it holds
CallTurnAt(e) == Received(e) /\ CallIndexes(Turn(e)) # {}
First(e) == Turn(e)[Least(CallIndexes(Turn(e)))].FunctionCall
\* the tool that e's registry holds for the name of that call
Known(e) == toolmap[e] # Nil /\ toolmap[e][First(e).Name] # NoTool
\* the function calls of a part list that follow its first one
Later(parts) ==
    {parts[i].FunctionCall : i \in CallIndexes(parts) \ {Least(CallIndexes(parts))}}

-----------------------------------------------------------------------------
(* Claims *)

\* C1: an Ask whose Sends are answered by N turns with a call to a registered
\* tool and then by a turn without a call invokes tool.Call N times, once per
\* call turn, on the tool named by the first call of the turn and with the
\* arguments of that call, sends N+1 times, and returns the content of the
\* last turn with a nil error.
C1_ChainResolved ==
    \A e \in Experts :
        /\ (CallTurnAt(e) /\ Known(e)) =>
              /\ Len(Ev(e, "Call")) = 1
              /\ Ev(e, "Call")[1].t = toolmap[e][First(e).Name]
              /\ Ev(e, "Call")[1].args = First(e).Args
        /\ (Received(e) /\ CallIndexes(Turn(e)) = {}) =>
              /\ cnt[e].calls = cnt[e].turns
              /\ cnt[e].sends = cnt[e].turns + 1
              /\ Ev(e, "AskReturn") = <<[k |-> "AskReturn", e |-> e,
                                        content |-> Content(Turn(e)), err |-> NoErr]>>
              /\ (e = Root => ret = AskResult(Content(Turn(e)), NoErr))

\* the top-level Ask returned a text after two chained calls
C1_Witness ==
    /\ act.k = "read"
    /\ ret.err = NoErr
    /\ cnt[Root].calls = 2
    /\ cnt[Root].sends = 3
    /\ Len(ret.content.Parts) > 0
    /\ ret.content.Parts[1].Text = "hello"

\* C2: every FunctionResponse that Ask sends carries the ID and the Name of
\* the function call that triggered it, whatever the tool's Call put there.
C2_ResponseMirrorsCall ==
    \A e \in Experts : \A i \in 1..Len(win[e]) :
        (win[e][i].k = "Send"
            /\ \E j \in 1..Len(win[e][i].parts) : win[e][i].parts[j].FunctionResponse # Nil)
        => /\ CallTurnAt(e)
           /\ Len(win[e][i].parts) = 1
           /\ win[e][i].parts[1].FunctionResponse.ID = First(e).ID
           /\ win[e][i].parts[1].FunctionResponse.Name = First(e).Name

\* a tool returned a response with an ID and a Name of its own, and the
\* response was sent
C2_Witness ==
    \E e \in Experts :
        /\ Has(e, "Send")
        /\ \E i \in 1..Len(win[e]) :
              /\ win[e][i].k = "CallReturn"
              /\ win[e][i].resp.ID = "zz"
              /\ win[e][i].resp.Name = "Other"
              /\ First(e).ID = "id2"

\* C3: of a turn with two function calls or more, Ask executes the first one
\* only: no later call of the turn reaches a tool's Call, and no response is
\* sent for it.
C3_OnlyFirstCall ==
    \A e \in Experts :
        (CallTurnAt(e) /\ Later(Turn(e)) # {}) =>
            /\ Len(Ev(e, "Call")) <= 1
            /\ \A i \in 1..Len(win[e]) :
                  win[e][i].k = "Call" =>
                      /\ win[e][i].args = First(e).Args
                      /\ win[e][i].t = toolmap[e][First(e).Name]
            /\ Len(Ev(e, "Send")) <= 1
            /\ \A d \in Experts : \A i \in 1..Len(win[d]) : \A c \in Later(Turn(e)) :
                  /\ win[d][i].k = "Call" => win[d][i].args # c.Args
                  /\ win[d][i].k = "Send" =>
                        \A j \in 1..Len(win[d][i].parts) :
                            win[d][i].parts[j].FunctionResponse # Nil
                                => win[d][i].parts[j].FunctionResponse.ID # c.ID

\* the root received a turn with two calls, called a tool and sent its response
C3_Witness ==
    /\ CallTurnAt(Root)
    /\ Later(Turn(Root)) # {}
    /\ Len(Ev(Root, "Call")) = 1
    /\ Len(Ev(Root, "Send")) = 1

\* C4: when the first function call of a turn names a tool that is not in the
\* toolmap, Ask returns a nil content and a non-nil error, calls no tool for
\* that turn and sends nothing more.
C4_UnknownAborts ==
    \A e \in Experts :
        (CallTurnAt(e) /\ ~Known(e)) =>
            /\ ~Has(e, "Call")
            /\ ~Has(e, "Send")
            /\ cnt[e].calls = cnt[e].turns - 1
            /\ cnt[e].sends = cnt[e].turns
            /\ Ev(e, "AskReturn") = <<[k |-> "AskReturn", e |-> e,
                                      content |-> Nil, err |-> UnknownErr]>>
            /\ (e = Root => ret = AskResult(Nil, UnknownErr) /\ act.k = "exit")
            /\ ~(act.k = "send" /\ act.e = e)

\* the root's second turn called a function that is not registered
C4_Witness ==
    /\ CallTurnAt(Root)
    /\ ~Known(Root)
    /\ cnt[Root].turns = 2
    /\ act.k = "exit"

\* C5: when a tool's Call returns a payload with an "error" key, Ask does not
\* return: it sends that payload, unchanged, under the ID and the Name of the
\* triggering call, and waits for the next turn.
C5_ErrorPayloadFedBack ==
    \A e \in Experts : \A i \in 1..Len(win[e]) :
        (win[e][i].k = "CallReturn" /\ HasKey(win[e][i].resp.Response, "error")) =>
            /\ ~Has(e, "AskReturn")
            /\ Ev(e, "Send") =
                  <<[k |-> "Send", e |-> e, chat |-> chat[e].id,
                     parts |-> <<ResponsePart(FunctionResponse(
                                    First(e).ID, First(e).Name, win[e][i].resp.Response))>>]>>
            /\ act.k = "send"
            /\ act.e = e

\* a leaf tool returned {"error": "X"} and the root sent it
C5_Witness ==
    /\ act.k = "send"
    /\ act.e = Root
    /\ \E i \in 1..Len(win[Root]) :
          /\ win[Root][i].k = "CallReturn"
          /\ win[Root][i].resp.Response = ErrorPayload("X")

\* the text a part list holds: its text fragments, in part order
RECURSIVE TextOf(_)
TextOf(parts) == IF parts = <<>> THEN "" ELSE parts[1].Text \o TextOf(Tail(parts))

\* the response that the Call of a delegate returned to e, if e called one
DelegateReturns(e) ==
    {i \in 1..Len(win[e]) :
        /\ win[e][i].k = "CallReturn"
        /\ \E j \in 1..(i - 1) : win[e][j].k = "Call" /\ win[e][j].t \in Experts}

\* C6: Call with {"question": Q}, Q a string, enters the delegate's Ask once,
\* with the text part Q as its only input, and when that Ask ends on a turn
\* with text it returns a payload whose only key is "output", holding the
\* text of that turn.
C6_CallReturnsFinalText ==
    \A e \in Experts : \A i \in 1..Len(win[e]) :
        (win[e][i].k = "Call" /\ win[e][i].t \in Experts
            /\ win[e][i].args.question.type = "string") =>
            LET d == win[e][i].t
                q == win[e][i].args.question.v
            IN  /\ cnt[d].asks = 1
                /\ \A j \in 1..Len(win[d]) :
                      win[d][j].k = "Ask" =>
                          win[d][j].by = "Call" /\ win[d][j].parts = <<TextPart(q)>>
                /\ (Received(d) /\ CallIndexes(Turn(d)) = {} /\ TextOf(Turn(d)) # "") =>
                      /\ act.k # "panic"
                      /\ DelegateReturns(e) # {}
                      /\ \A r \in DelegateReturns(e) :
                            win[e][r].resp.Response = OutputPayload(TextOf(Turn(d)))

\* C7: Call returns a payload with an "error" key and no "output" key when
\* the delegate's Ask returned an error, and when it returned no usable text
\* (an empty content, or parts that hold no text).
C7_NoTextIsError ==
    \A e \in Experts : \A i \in 1..Len(win[e]) :
        (win[e][i].k = "Call" /\ win[e][i].t \in Experts) =>
            LET d == win[e][i].t
            IN  \A j \in 1..Len(win[d]) :
                    (win[d][j].k = "AskReturn"
                        /\ (win[d][j].err # NoErr \/ TextOf(win[d][j].content.Parts) = "")) =>
                        /\ act.k # "panic"
                        /\ DelegateReturns(e) # {}
                        /\ \A r \in DelegateReturns(e) :
                              /\ HasKey(win[e][r].resp.Response, "error")
                              /\ ~HasKey(win[e][r].resp.Response, "output")

\* the tool a list of tools declares last under a name
Greatest(S) == CHOOSE i \in S : \A j \in S : j <= i
Declaring(e, name) ==
    {i \in 1..Len(Tools[e]) :
        (IF Tools[e][i] \in Experts THEN Tools[e][i] ELSE LeafName) = name}
LastDeclared(e, name) == Tools[e][Greatest(Declaring(e, name))]

\* C8: two tools of the list with the same name do not make Start fail, and
\* every dispatch of that name reaches the tool declared later in the list.
C8_LastDeclarationWins ==
    /\ (act.k = "exit" /\ ~started) =>
          (Len(boot) > 0 /\ boot[Len(boot)].k = "StartFailed")
    /\ \A e \in Experts :
          /\ started =>
                \A name \in Names :
                    IF Declaring(e, name) = {}
                    THEN toolmap[e][name] = NoTool
                    ELSE toolmap[e][name] = LastDeclared(e, name)
          /\ \A i \in 1..Len(win[e]) :
                win[e][i].k = "Call" =>
                    /\ Declaring(e, First(e).Name) # {}
                    /\ win[e][i].t = LastDeclared(e, First(e).Name)

\* the root, built with two tools of the same name, dispatched that name
C8_Witness ==
    /\ Cardinality(Declaring(Root, LeafName)) = 2
    /\ started
    /\ Len(Ev(Root, "Call")) = 1
    /\ Ev(Root, "Call")[1].t = Tools[Root][3]
    /\ First(Root).Name = LeafName

\* C9: when a Send fails, the first one or a later one, Ask returns the error
\* at once: it calls no tool and sends nothing after the failed Send.
C9_SendFailureAborts ==
    \A e \in Experts :
        (Len(win[e]) > 0 /\ win[e][1].k = "SendFailed") =>
            /\ win[e] = <<[k |-> "SendFailed", e |-> e],
                          [k |-> "AskReturn", e |-> e, content |-> Nil, err |-> SendErr]>>
            /\ cnt[e].calls = cnt[e].turns
            /\ cnt[e].sends = cnt[e].turns + 1
            /\ (e = Root => ret = AskResult(Nil, SendErr) /\ act.k = "exit")
            /\ ~(act.k \in {"send", "call"} /\ act.e = e)

\* the Send of a response failed, after a tool was called
C9_Witness ==
    /\ Len(win[Root]) > 0
    /\ win[Root][1].k = "SendFailed"
    /\ cnt[Root].sends = 2
    /\ cnt[Root].calls = 1

\* C10: when Send returns a turn without parts (no candidate, a nil content or
\* an empty part list), Ask returns an empty content and a nil error, calls
\* no tool and sends nothing more, on the first turn and on a later one.
C10_EmptyTurnTolerated ==
    \A e \in Experts :
        (Received(e) /\ PartsOf(win[e][1].resp) = <<>>) =>
            /\ Ev(e, "AskReturn") = <<[k |-> "AskReturn", e |-> e,
                                      content |-> EmptyContent, err |-> NoErr]>>
            /\ ~Has(e, "Call")
            /\ ~Has(e, "Send")
            /\ cnt[e].calls = cnt[e].turns
            /\ cnt[e].sends = cnt[e].turns + 1
            /\ (e = Root => ret = AskResult(EmptyContent, NoErr) /\ act.k = "read")

\* the root received a nil content after a tool was called
C10_Witness ==
    /\ Received(Root)
    /\ win[Root][1].resp = [Candidates |-> <<[Content |-> Nil]>>]
    /\ cnt[Root].calls = 1
    /\ act.k = "read"

\* the Start of one of the root's tools has failed: Start ended on a failure
\* that is not the failure of the root's own Chats.Create
ToolStartFailed ==
    /\ act.k = "exit"
    /\ ~started
    /\ Len(boot) >= 2
    /\ boot[Len(boot)].k = "StartFailed"
    /\ boot[Len(boot) - 1] # [k |-> "Create", e |-> Root]

\* C11: when the Start of a tool of the list fails, Start returns the error,
\* creates no session, starts no later tool, and the Expert holds no lookup
\* table and no schema list with the tools started before the failing one.
C11_NoPartialRegistry ==
    ToolStartFailed =>
        /\ act.err # NoErr
        /\ chat[Root].id = 0
        /\ ~\E i \in 1..Len(boot) : boot[i] = [k |-> "Create", e |-> Root]
        /\ \A n \in Names : toolmap[Root] = Nil \/ toolmap[Root][n] = NoTool
        /\ decls[Root] = <<>>

\* C12: once Agent.Run has started the experts, the session of each Expert
\* is the one Start created: it is never created again or replaced, every
\* Send of the Expert goes to it, and what it has been sent only grows (one
\* more Send at a time), also after an Ask that ended with an error.
C12_SessionKept ==
    /\ [](started =>
            \A e \in Experts :
                /\ chat[e].id # 0
                /\ \A i \in 1..Len(win[e]) :
                      win[e][i].k = "Send" => win[e][i].chat = chat[e].id)
    /\ [][started =>
            /\ started'
            /\ \A e \in Experts :
                  /\ chat'[e].id = chat[e].id
                  /\ chat'[e].n >= chat[e].n
                  /\ chat'[e].n <= chat[e].n + 1
            /\ (act'.k = "send" => chat'[act'.e].n = chat[act'.e].n + 1)
            /\ ~\E i \in (Len(boot) + 1)..Len(boot') : boot'[i].k \in {"Create", "Created"}
       ]_vars

\* Run was invoked again after an Ask had ended with an error, and the root
\* has sent the next input to the session that holds the earlier Sends
C12_Witness ==
    /\ \E i \in 1..Len(boot) : boot[i].k = "Run" /\ boot[i].after # NoErr
    /\ act.k = "send"
    /\ act.e = Root
    /\ chat[Root].n >= 2
    /\ chat[Sub].n >= 1

\* C13: every Call of a tool, leaf tool or delegated Expert, returns to Ask,
\* whatever the arguments and whatever fails behind it, with a payload that
\* holds exactly one of the keys "output" and "error".
C13_CallAlwaysReturns ==
    /\ act.k # "panic"
    /\ \A e \in Experts : \A i \in 1..Len(win[e]) :
          win[e][i].k = "CallReturn" =>
              (HasKey(win[e][i].resp.Response, "output")
                  # HasKey(win[e][i].resp.Response, "error"))

\* C14: once the context is cancelled no Send is started on any session,
\* whether the cancellation came during a Send, during a leaf tool's Call or
\* during a delegate's Ask.
C14_NoSendAfterCancel ==
    [][ctx = "cancelled" => \A e \in Experts : chat'[e].n = chat[e].n]_vars

\* C15: when the top-level Ask of an input returns a fatal error (a failed
\* Send, an unknown function), Agent.Run does not end: it reports the error
\* and prompts for the next input.
C15_ReplSurvivesError ==
    (ret.err \in {SendErr, UnknownErr}) => (act.k = "read")

\* C16: whenever a chain of Asks ends on a fatal error (a failed Send, an
\* unknown function), LogQuestion or LogResponse is invoked for that
\* termination before Ask returns the error.
C16_FatalErrorLogged ==
    \A e \in Experts : \A i \in 1..Len(win[e]) :
        (win[e][i].k = "AskReturn" /\ win[e][i].err # NoErr) =>
            \E j \in 1..(i - 1) : win[e][j].k \in {"LogQuestion", "LogResponse"}

\* the hook events of a dispatch
IsCalling(ev) == ev.k = "LogResponse" /\ ev.text[1] = "Calling"
IsProcessing(ev) == ev.k = "LogQuestion" /\ ev.text[1] = "Processing response of"
IsCall(ev) == ev.k = "Call"
IsCallReturn(ev) == ev.k = "CallReturn"
IsResponseSend(ev) ==
    ev.k = "Send" /\ Len(ev.parts) = 1 /\ ev.parts[1].FunctionResponse # Nil
\* how many events of each kind e's window holds
Callings(e) == Cardinality({i \in 1..Len(win[e]) : IsCalling(win[e][i])})
Processings(e) == Cardinality({i \in 1..Len(win[e]) : IsProcessing(win[e][i])})
Calls(e) == Cardinality({i \in 1..Len(win[e]) : IsCall(win[e][i])})
CallReturns(e) == Cardinality({i \in 1..Len(win[e]) : IsCallReturn(win[e][i])})
ResponseSends(e) == Cardinality({i \in 1..Len(win[e]) : IsResponseSend(win[e][i])})

\* C17: for every dispatch the events of the Ask come in this order, with no
\* other event of that Ask in between: the "Calling X" hook, tool.Call, the
\* "Processing X's response" hook, the Send of the response; each turn that
\* dispatches emits one event of each kind, a turn that dispatches nothing
\* emits none.
C17_DispatchOrder ==
    \A e \in Experts :
        /\ Callings(e) = Calls(e)
        /\ Processings(e) = CallReturns(e)
        /\ Processings(e) = ResponseSends(e)
        /\ Calls(e) <= 1
        /\ Calls(e) = IF CallTurnAt(e) /\ Known(e) THEN 1 ELSE 0
        /\ \A i \in 1..Len(win[e]) :
              /\ IsCall(win[e][i]) =>
                    /\ i > 1
                    /\ win[e][i - 1].k = "LogResponse"
                    /\ win[e][i - 1].text = <<"Calling", First(e).Name>>
                    /\ i < Len(win[e]) => IsCallReturn(win[e][i + 1])
              /\ IsCallReturn(win[e][i]) =>
                    /\ i > 1 /\ IsCall(win[e][i - 1])
                    /\ Len(win[e]) = i + 3
                    /\ win[e][i + 1].k = "LogQuestion"
                    /\ win[e][i + 1].text = <<"Processing response of", First(e).Name>>
                    /\ win[e][i + 2].k = "Ask"
                    /\ IsResponseSend(win[e][i + 3])

\* the second dispatch of a chain has logged, called, logged and sent
C17_Witness ==
    /\ cnt[Root].calls = 2
    /\ Callings(Root) = 1
    /\ Processings(Root) = 1
    /\ ResponseSends(Root) = 1
    /\ act.k = "send"
    /\ act.e = Root

\* the state the same run is in under the logger that does nothing: the
\* same state, without what the logger printed
Quiet(s) ==
    [s EXCEPT !.logger = QuietLogger,
              !.win = [e \in Experts |->
                          [i \in 1..Len(s.win[e]) |->
                              IF s.win[e][i].k \in {"LogQuestion", "LogResponse"}
                              THEN [s.win[e][i] EXCEPT !.out = <<>>]
                              ELSE s.win[e][i]]]]

C19_NoCallBudget ==
    \A e \in Experts :
        /\ Has(e, "AskReturn") =>
              \/ win[e][1].k = "SendFailed"
              \/ Received(e) /\ CallIndexes(Turn(e)) = {}
              \/ CallTurnAt(e) /\ ~Known(e)
        /\ (Len(win[e]) > 0 /\ win[e][1].k = "SendFailed") => Has(e, "AskReturn")
        /\ (Received(e) /\ CallIndexes(Turn(e)) = {}) => Has(e, "AskReturn")
        /\ (CallTurnAt(e) /\ ~Known(e)) => Has(e, "AskReturn")
        /\ (CallTurnAt(e) /\ Known(e)) =>
              /\ ~Has(e, "AskReturn")
              /\ Has(e, "Call")
              /\ cnt[e].calls = cnt[e].turns

\* the root has dispatched as many calls as the model was allowed to issue,
\* and is sending again
C19_Witness ==
    /\ CallTurnAt(Root)
    /\ Known(Root)
    /\ cnt[Root].calls = MaxChain
    /\ act.k = "send"
    /\ act.e = Root
    /\ ~Has(Root, "AskReturn")

\* e's Ask has been entered by its caller and no Send has returned yet
Entered(e) == Len(win[e]) > 0 /\ win[e][1].k \notin {"Recv", "SendFailed"}

\* C20: an Ask that resolves N chained calls sends N+1 times: the first Send
\* carries the caller's parts, each later one carries one part, the
\* FunctionResponse of the dispatch just made; no response is sent twice and
\* none is skipped.
C20_OneSendPerDispatch ==
    \A e \in Experts :
        /\ Entered(e) =>
              /\ Len(Ev(e, "Ask")) = 1
              /\ Ev(e, "Ask")[1].by # "Ask"
              /\ Len(Ev(e, "Send")) = 1
              /\ Ev(e, "Send")[1].parts = Ev(e, "Ask")[1].parts
              /\ cnt[e].sends = 1
              /\ cnt[e].calls = 0
        /\ Len(win[e]) > 0 /\ ~Entered(e) =>
              /\ Len(Ev(e, "Send")) = Len(Ev(e, "CallReturn"))
              /\ Len(Ev(e, "Send")) <= 1
              /\ cnt[e].sends = cnt[e].calls + (IF Has(e, "Call") /\ ~Has(e, "Send") THEN 0 ELSE 1)
              /\ \A i \in 1..Len(win[e]) :
                    win[e][i].k = "Send" =>
                        /\ i = Len(win[e])
                        /\ win[e][i].parts =
                              <<ResponsePart(FunctionResponse(
                                    First(e).ID, First(e).Name,
                                    Ev(e, "CallReturn")[1].resp.Response))>>

\* the root has sent three times for two dispatches, the last Send holding
\* the response of the second one
C20_Witness ==
    /\ cnt[Root].sends = 3
    /\ cnt[Root].turns = 2
    /\ cnt[Root].calls = 2
    /\ Len(Ev(Root, "Send")) = 1
    /\ Ev(Root, "Send")[1].parts[1].FunctionResponse.ID = First(Root).ID
    /\ act.k = "send"
    /\ act.e = Root

\* the non-empty texts of a part list, in part order
RECURSIVE Texts(_)
Texts(parts) ==
    IF parts = <<>> THEN <<>>
    ELSE (IF parts[1].Text # "" THEN <<parts[1].Text>> ELSE <<>>) \o Texts(Tail(parts))

\* the sink e's Ask was given: Agent.Run gives its writer, Call io.Discard
Sink(e) == IF e = Root THEN "stdout" ELSE "discard"

\* the texts of the last turn of e up to and including its first call
Leading(e) == Texts(SubSeq(Turn(e), 1, Least(CallIndexes(Turn(e)))))

\* C21: in a turn with a function call, every non-empty text before the
\* first call, or on the part of that call, is written to the sink in part
\* order, before the lookup of the name and before the tool's Call, also
\* when the name is unknown.
C21_LeadingTextWritten ==
    \A e \in Experts :
        CallTurnAt(e) =>
            /\ Len(win[e]) >= 1 + Len(Leading(e))
            /\ \A j \in 1..Len(Leading(e)) :
                  win[e][1 + j] = [k |-> "Write", e |-> e, w |-> Sink(e), by |-> "Ask",
                                   text |-> Leading(e)[j]]
            /\ \A i \in 1..Len(win[e]) :
                  win[e][i].k \in {"LogResponse", "Call", "AskReturn"} => i > 1 + Len(Leading(e))

\* a text was written although the call that followed named an unknown function
C21_Witness ==
    /\ CallTurnAt(Root)
    /\ ~Known(Root)
    /\ Leading(Root) = <<"hello">>
    /\ win[Root][2].k = "Write"
    /\ Has(Root, "AskReturn")

\* the texts of the last turn of e that follow its first call
Trailing(e) ==
    Texts(SubSeq(Turn(e), Least(CallIndexes(Turn(e))) + 1, Len(Turn(e))))
\* the texts the model service puts after a call
TrailingTexts == {p.Text : p \in TailParts} \ {""}
\* the Writes of e's window made by Ask, and those made by Agent.Run
WritesBy(e, by) == SelectSeq(win[e], LAMBDA ev : ev.k = "Write" /\ ev.by = by)

\* C22: the texts that follow the first call of a turn are never written to
\* the sink and are in no content that Ask returns; the text of a final turn
\* without a call is returned by Ask and not written by it, so that each
\* fragment is surfaced once.
C22_NoTextTwice ==
    \A e \in Experts :
        /\ CallTurnAt(e) =>
              /\ Len(WritesBy(e, "Ask")) = Len(Leading(e))
              /\ \A i \in 1..Len(win[e]) :
                    win[e][i].k = "Write" =>
                        \A j \in 1..Len(Trailing(e)) : win[e][i].text # Trailing(e)[j]
        /\ \A i \in 1..Len(win[e]) :
              (win[e][i].k = "AskReturn" /\ win[e][i].content # Nil) =>
                  \A j \in 1..Len(win[e][i].content.Parts) :
                      win[e][i].content.Parts[j].Text \notin TrailingTexts
        /\ (Received(e) /\ CallIndexes(Turn(e)) = {} /\ Turn(e) # <<>>) =>
              /\ WritesBy(e, "Ask") = <<>>
              /\ Ev(e, "AskReturn")[1].content = Content(Turn(e))
              /\ e = Root =>
                    /\ Len(WritesBy(e, "Run")) = Len(Turn(e))
                    /\ \A j \in 1..Len(Turn(e)) :
                          Turn(e)[j].Text # "" => WritesBy(e, "Run")[j].text = Turn(e)[j].Text

\* the root's turn held a text after its call to the delegate, and the
\* delegate's Ask has returned the text of its final turn
C22_Witness ==
    /\ CallTurnAt(Root)
    /\ Trailing(Root) = <<"bye">>
    /\ Received(Sub)
    /\ Turn(Sub) = <<TextPart("hello")>>
    /\ Has(Sub, "AskReturn")
    /\ act.k = "send"
    /\ act.e = Root

\* the last event of e's window
LastEv(e) == win[e][Len(win[e])]
\* the Ask of the delegate e ended with the error of a failed Send, or with
\* that of a call to a name its registry has not
DelegateFailed(e) ==
    /\ win[e] # <<>>
    /\ LastEv(e).k = "AskReturn"
    /\ LastEv(e).err # NoErr
\* the next step ends the top-level Ask with a text and a nil error
EndsWithText ==
    /\ SendReturn
    /\ act'.k = "read"
    /\ ret'.err = NoErr
    /\ Len(ret'.content.Parts) > 0
    /\ ret'.content.Parts[1].Text = "hello"

\* C23: a fatal error inside the delegate's Ask (a failed Send, a call to a
\* name that is not in the delegate's registry) does not end the parent's
\* Ask: the adapter returns an "error" payload, the parent sends it to its
\* own session under the ID and Name of the delegation call, and the parent's
\* Ask can still end with a text.
C23_DelegateErrorContained ==
    DelegateFailed(Sub) =>
        /\ LastEv(Sub).err \in {SendErr, UnknownErr}
        /\ LastEv(Sub).content = Nil
        /\ CallTurnAt(Root)
        /\ toolmap[Root][First(Root).Name] = Sub
        /\ stack = <<>>
        /\ ~Has(Root, "AskReturn")
        /\ act = [k |-> "send", e |-> Root, w |-> "stdout"]
        /\ Len(Ev(Root, "CallReturn")) = 1
        /\ HasKey(Ev(Root, "CallReturn")[1].resp.Response, "error")
        /\ ~HasKey(Ev(Root, "CallReturn")[1].resp.Response, "output")
        /\ LastEv(Root) = [k |-> "Send", e |-> Root, chat |-> chat[Root].id,
                           parts |-> <<ResponsePart(FunctionResponse(
                                         First(Root).ID, First(Root).Name,
                                         Ev(Root, "CallReturn")[1].resp.Response))>>]
        /\ ENABLED EndsWithText

\* the delegate's model called a name the delegate has not registered, and
\* the root has sent the error payload to its own session
C23_Witness ==
    /\ DelegateFailed(Sub)
    /\ LastEv(Sub).err = UnknownErr
    /\ act.k = "send"
    /\ act.e = Root
    /\ LastEv(Root).k = "Send"

\* the tools e was built with
Own(e) == {Tools[e][i] : i \in 1..Len(Tools[e])}
\* the parts e's Ask may send: the input of the Ask (the REPL's question for
\* the root, the question of the parent's call for a delegate), or the
\* response to the first call of e's last turn
IsInput(e, parts) ==
    IF e = Root
    THEN \E q \in Questions : parts = <<TextPart(q)>>
    ELSE /\ CallTurnAt(Root)
         /\ parts = <<TextPart(First(Root).Args.question.v)>>
IsOwnResponse(e, parts) ==
    /\ CallTurnAt(e)
    /\ Len(parts) = 1
    /\ parts[1].FunctionResponse # Nil
    /\ parts[1].FunctionResponse.ID = First(e).ID
    /\ parts[1].FunctionResponse.Name = First(e).Name

\* C24: sessions are private to their Expert.  While the parent's Ask is
\* inside the delegate's Call every Send goes to the delegate's session and
\* the parent's session receives nothing; a session only receives the input
\* parts of its Expert's Ask and the responses to that Expert's own calls;
\* and a call is looked up in the registry of the Expert whose model issued
\* it, never in another one's.
C24_SessionsPrivate ==
    /\ [](/\ (chat[Root].id # 0 /\ chat[Sub].id # 0) => chat[Root].id # chat[Sub].id
          /\ \A e \in Experts : \A i \in 1..Len(win[e]) :
                /\ win[e][i].k = "Send" =>
                      /\ win[e][i].chat = chat[e].id
                      /\ IsInput(e, win[e][i].parts) \/ IsOwnResponse(e, win[e][i].parts)
                /\ win[e][i].k = "Call" =>
                      /\ win[e][i].t \in Own(e)
                      /\ win[e][i].t = toolmap[e][First(e).Name]
          /\ \A e \in Experts :
                (CallTurnAt(e) /\ toolmap[e][First(e).Name] = NoTool) => ~Has(e, "Call")
          /\ (started /\ stack # <<>>) =>
                /\ act.k = "send" => act.e = Sub
                /\ CallTurnAt(Root)
                /\ ~Has(Root, "Send"))
    /\ [][(started /\ stack' # <<>>) => chat'[Root].n = chat[Root].n]_vars

\* inside the root's call to the delegate, the delegate has sent its question
\* and then the response of its own tool, both to its own session
C24_Witness ==
    /\ started
    /\ stack # <<>>
    /\ act.k = "send"
    /\ act.e = Sub
    /\ Len(Ev(Sub, "Call")) = 1
    /\ Ev(Sub, "Call")[1].t = "t3"
    /\ chat[Sub].n = 2
    /\ chat[Root].n = 1

\* the first call of the root's last turn names the delegate, and the
\* argument it gives as the question
Delegated == CallTurnAt(Root) /\ toolmap[Root][First(Root).Name] = Sub
Question == First(Root).Args.question

\* C25: when the "question" argument is missing or is not a string, Call
\* returns an "error" payload and does not ask the delegate: nothing is sent
\* to the delegate's session and the delegate emits no hook event; an empty
\* string is accepted and sent to the delegate as the question.
C25_QuestionChecked ==
    /\ (Delegated /\ Question.type # "string") =>
          /\ win[Sub] = <<>>
          /\ cnt[Sub] = ZeroCnt
          /\ stack = <<>>
          /\ ~(act.k = "send" /\ act.e = Sub)
          /\ Len(Ev(Root, "CallReturn")) = 1
          /\ HasKey(Ev(Root, "CallReturn")[1].resp.Response, "error")
          /\ ~HasKey(Ev(Root, "CallReturn")[1].resp.Response, "output")
          /\ act = [k |-> "send", e |-> Root, w |-> "stdout"]
    /\ (Delegated /\ Question.type = "string" /\ act.k = "send" /\ act.e = Sub
            /\ cnt[Sub].sends = 1) =>
          /\ Len(win[Sub]) >= 3
          /\ win[Sub][1] = [k |-> "LogQuestion", e |-> Sub, text |-> <<Question.v>>,
                            out |-> <<Sub, ">", Question.v>>]
          /\ win[Sub][2] = [k |-> "Ask", e |-> Sub, by |-> "Call",
                            parts |-> <<TextPart(Question.v)>>]
          /\ win[Sub][3] = [k |-> "Send", e |-> Sub, chat |-> chat[Sub].id,
                            parts |-> <<TextPart(Question.v)>>]

\* the root's model called the delegate with the empty string as the
\* question, and the delegate has sent it to its session
C25_Witness ==
    /\ Delegated
    /\ Question = Str("")
    /\ act.k = "send"
    /\ act.e = Sub
    /\ cnt[Sub].sends = 1
    /\ Has(Sub, "LogQuestion")

\* the name of the schema a tool of the list declares
NameOf(t) == IF t \in Experts THEN t ELSE LeafName
\* the tools whose Start the Start of e has called so far, in call order
StartedTools(e) ==
    LET evs == SelectSeq(boot, LAMBDA ev : ev.k = "ToolStart" /\ ev.e = e)
    IN  [i \in 1..Len(evs) |-> evs[i].t]
\* the program is blocked in the Chats.Create of e
Creating(e) == act.k = "create" /\ act.e = e

\* C26: Start starts the tools in the order of the list and creates the
\* Expert's session only after every tool has started: a delegate's session
\* exists before its parent's is created, and when the parent's session is
\* created its configuration holds one schema per tool, in list order.
C26_StartOrder ==
    \A e \in Experts :
        /\ ~started =>
              /\ Len(StartedTools(e)) <= Len(Tools[e])
              /\ StartedTools(e) = SubSeq(Tools[e], 1, Len(StartedTools(e)))
        /\ Creating(e) =>
              /\ StartedTools(e) = Tools[e]
              /\ decls[e] = [i \in 1..Len(Tools[e]) |-> NameOf(Tools[e][i])]
              /\ chat[e].id = 0
              /\ boot[Len(boot)] = [k |-> "Create", e |-> e]
              /\ \A i \in 1..Len(boot) : boot[i].k # "StartFailed"
              /\ \A d \in Own(e) \cap Experts :
                    /\ chat[d].id # 0
                    /\ \E i \in 1..(Len(boot) - 1) : boot[i] = [k |-> "Created", e |-> d]
        /\ (chat[e].id # 0 /\ ~started) =>
              \A d \in Own(e) \cap Experts : chat[d].id # 0 /\ chat[d].id < chat[e].id

\* the root, whose delegate comes after a leaf tool in the list, is about to
\* create its session
C26_Witness ==
    /\ Creating(Root)
    /\ Tools[Root] = <<"t1", Sub>>
    /\ chat[Sub].id = 1

\* a Send on e's session has not returned yet
InFlight(e) == Has(e, "Send")
\* e's Ask has dispatched a Call that has not returned yet
Waiting(e) == Len(Ev(e, "Call")) > Len(Ev(e, "CallReturn"))

\* C27: accesses to the sessions are serialized: at most one Send is in
\* flight over all the Experts, and the session of an Expert that waits for
\* the result of a Call it dispatched receives no Send.
C27_SendsSerialized ==
    /\ [](/\ Cardinality({e \in Experts : InFlight(e)}) <= 1
          /\ \A e \in Experts :
                /\ InFlight(e) <=> (act.k = "send" /\ act.e = e)
                /\ InFlight(e) => (Len(Ev(e, "Send")) = 1 /\ LastEv(e).k = "Send")
                /\ Waiting(e) => (~InFlight(e) /\ ~(act.k = "send" /\ act.e = e)))
    /\ [][\A e \in Experts :
              (Waiting(e) /\ Waiting(e)') => chat'[e].n = chat[e].n]_vars

\* the root waits for the delegate's Call, and the delegate waits for the
\* answer to its first Send
C27_Witness ==
    /\ Waiting(Root)
    /\ InFlight(Sub)
    /\ chat[Sub].n = 1
    /\ Ev(Root, "Call")[1].t = Sub

\* the Ask of the delegate d has returned the content of a turn of several
\* parts
SeveralParts(d) ==
    /\ Received(d)
    /\ CallIndexes(Turn(d)) = {}
    /\ Len(Turn(d)) >= 2
    /\ Has(d, "AskReturn")

\* C28: when the delegate's final turn holds several parts, the "output" of
\* Call is the text of the first part only; the text of the later parts is
\* in nothing the parent sends to its model.
C28_FirstPartOnly ==
    SeveralParts(Sub) =>
        /\ act = [k |-> "send", e |-> Root, w |-> "stdout"]
        /\ Len(Ev(Root, "CallReturn")) = 1
        /\ Ev(Root, "CallReturn")[1].resp.Response = OutputPayload(Turn(Sub)[1].Text)
        /\ Len(Ev(Root, "Send")) = 1
        /\ Ev(Root, "Send")[1].parts =
              <<ResponsePart(FunctionResponse(First(Root).ID, First(Root).Name,
                                              OutputPayload(Turn(Sub)[1].Text)))>>
        /\ Ev(Sub, "LogResponse") =
              <<[k |-> "LogResponse", e |-> Sub, text |-> <<Turn(Sub)[1].Text>>,
                 out |-> <<Sub, ":", Turn(Sub)[1].Text>>]>>

\* the delegate ended on a turn whose text is in its second part, and the
\* root has sent an empty output to its model
C28_Witness ==
    /\ SeveralParts(Sub)
    /\ Turn(Sub) = <<TextPart(""), TextPart("hello")>>
    /\ act.k = "send"
    /\ act.e = Root
    /\ LastEv(Root).parts[1].FunctionResponse.Response = OutputPayload("")

\* what Agent.Run consumed last
LastInput == hist[Len(hist)]
\* an argument that holds white space only
IsBlankArg(h) == h.src = "arg" /\ TrimSpace(h.raw) = <<>>
\* an argument or a line that reads "bye"
IsBye(h) == h.src \in {"arg", "line"} /\ TrimSpace(h.raw) = Bye
\* "bye", or the end of input on the reader
IsEnd(h) == IsBye(h) \/ h.src = EOF
\* an input that is to be asked
IsQuestion(h) == h.src \in {"arg", "line"} /\ ~IsBlankArg(h) /\ ~IsBye(h)
\* what the claim says of the inputs consumed so far: arguments come before
\* the reader, a top-level Ask is made for each question and for nothing
\* else, its single part is the trimmed input, and nothing is consumed after
\* "bye" or the end of input
InputsInOrder ==
    /\ \A i \in 1..Len(hist) : \A j \in (i + 1)..Len(hist) :
          hist[j].src = "arg" => hist[i].src = "arg"
    /\ (hist # <<>> /\ LastInput.src # "arg" /\ ~IsBye(LastInput)) => argv = <<>>
    /\ \A i \in 1..(Len(hist) - 1) : ~IsEnd(hist[i])
OneAskEach ==
    /\ cnt[Root].asks = Cardinality({i \in 1..Len(hist) : IsQuestion(hist[i])})
    /\ \A i \in 1..Len(win[Root]) :
          (win[Root][i].k = "Ask" /\ win[Root][i].by = "Run") =>
              /\ i = 1
              /\ IsQuestion(LastInput)
              /\ win[Root][i].parts = <<TextPart(ToStr(TrimSpace(LastInput.raw)))>>
NilAtEnd ==
    (hist # <<>> /\ IsEnd(LastInput)) =>
        /\ act = [k |-> "exit", err |-> NoErr]
        /\ win[Root] = <<>>

\* C29: Agent.Run consumes its arguments in order and before the reader,
\* skips a blank argument without an Ask, makes exactly one top-level Ask,
\* with the trimmed input as its single part, for every other input that is
\* not "bye", and returns, with nil, at the first "bye" or at the end of
\* input on the reader; short of an error of the reader, it returns at no
\* other point, so that every input before that point is processed.
C29_InputsAsked ==
    /\ InputsInOrder
    /\ OneAskEach
    /\ NilAtEnd
    /\ (started /\ act.k = "exit") =>
          (hist # <<>> /\ (IsEnd(LastInput) \/ LastInput.src = ReadErr))

\* the folders reached from the set S by going up k times
RECURSIVE UpFrom(_, _, _)
UpFrom(par, S, k) ==
    IF k = 0 THEN S ELSE UpFrom(par, S \cup UNION {par[n] : n \in S}, k - 1)
\* some chain of parents leads from n to the B4 folder
InB4(par, n) == B4 \in UpFrom(par, par[n], Cardinality(Nodes))

\* C30: DeleteFile deletes a file only when the B4 folder was found and a
\* chain of parents leads from the file to it; when there is no B4 folder,
\* when the file's metadata cannot be read or when the file is outside B4 it
\* returns an error and deletes nothing; hence no sequence of B4Delete and
\* B4Merge calls removes a file that is outside B4.
C30_DeleteOnlyInB4 ==
    /\ [](drive # NoDrive =>
             \A n \in Nodes \ {"m"} : ~InB4(drive.parents, n) => n \in drive.files)
    /\ [][/\ job.pend = <<>> => drive.files \subseteq drive'.files
          /\ job.pend # <<>> =>
                LET id == Head(job.pend)
                    env == job'.env
                IN  /\ job'.id = id
                    /\ drive'.parents = drive.parents
                    /\ drive'.files # drive.files =>
                          /\ env.found
                          /\ InB4(drive.parents, id)
                          /\ id \in drive.files
                          /\ id \notin drive'.files
                          /\ job'.err = NoErr
                          /\ \A n \in drive.files \ drive'.files : InB4(drive.parents, n)
                    /\ (~env.found \/ id \in env.bad \/ id \notin drive.files
                            \/ ~InB4(drive.parents, id)) =>
                          (job'.err # NoErr /\ drive' = drive)
                    /\ job'.err # NoErr => drive' = drive
         ]_vars

\* B4Merge has deleted a source that lies in a folder of B4, and every file
\* outside B4 is still there
C30_Witness ==
    /\ job.tool = "B4Merge"
    /\ job.id = "f"
    /\ job.err = NoErr
    /\ "f" \notin drive.files
    /\ "m" \in drive.files
    /\ drive.parents["f"] = {"dir"}
    /\ drive.parents["dir"] = {B4}
    /\ "dir" \in drive.files

====
